---- MODULE Spec2Model ----
(***************************************************************************)
(* The course dependency graph of course-graph-network: the CourseGraph    *)
(* class of src/src/graph/graphBuilder.js (node map, edge array, the       *)
(* two-pass build and the read queries), driven by a caller that makes one *)
(* call at a time and takes its return value, and the server around it     *)
(* (server.js and its later variant): the startup load and the handlers    *)
(* that read the loaded records.                                           *)
(***************************************************************************)
EXTENDS Integers, Sequences, FiniteSets, TLC

VARIABLES
  nodes,  \* this.nodes : a Map, kept as the sequence of its values in insertion order
  edges,  \* this.edges : the array of edge records
  call,   \* the call the caller made last: its operation and arguments
  ret,    \* the value that call returned
  coursesData,  \* the server's coursesData : the record list it loaded
  listening     \* whether app.listen has run

serverVars == <<coursesData, listening>>

vars == <<nodes, edges, call, ret, coursesData, listening>>

----------------------------------------------------------------------------
(* Bounds of the model *)

MaxRecords == 2   \* longest record list passed to buildFromCourses
MaxEdges == 3     \* cap on the length of this.edges
MaxSeeds == 2     \* longest seed list passed to getSubgraph
MaxDepth == 2     \* largest depth passed to getSubgraph

(* Input values *)

Codes == {"A", "B", "C", "D"}
Departments == {"CS", "MATH", "cs"}
Depths == (0 - 1) .. MaxDepth

\* what JavaScript yields for Map.get of an absent key and for a call without a return value
Undefined == [undefined |-> TRUE]

Course(code, name, department, prerequisites, corequisites) ==
  [code |-> code, name |-> name, department |-> department,
   description |-> "about " \o name, url |-> "/" \o department,
   prerequisites |-> prerequisites, corequisites |-> corequisites]

\* The course records the scraper can hand over: the chain A -> B -> C -> D, a second
\* record for A with other attributes that closes a cycle and names a corequisite,
\* and a course that lists itself.
Catalog ==
  { Course("A", "Intro", "CS", <<>>, <<>>),
    Course("B", "Data", "CS", <<"A">>, <<>>),
    Course("C", "Algo", "CS", <<"B">>, <<>>),
    Course("D", "Calc", "MATH", <<"C">>, <<>>),
    Course("A", "Proofs", "MATH", <<"B">>, <<"C">>),
    Course("C", "Loops", "MATH", <<"C">>, <<>>) }

SeqsUpTo(S, n) == UNION {[1..k -> S] : k \in 0..n}

RecordLists == SeqsUpTo(Catalog, MaxRecords)

\* a record of the file that lacks a field
WithoutField(course, field) == [f \in DOMAIN course \ {field} |-> course[f]]

\* records of a file that was not written by the scraper: some lack the
\* prerequisites field, the corequisites field, or both
MalformedCatalog ==
  { Course("A", "Intro", "CS", <<>>, <<>>),
    Course("B", "Data", "CS", <<"A">>, <<>>),
    WithoutField(Course("C", "Algo", "CS", <<"B">>, <<>>), "prerequisites"),
    WithoutField(Course("A", "Proofs", "MATH", <<"B">>, <<"C">>), "corequisites"),
    WithoutField(WithoutField(Course("D", "Calc", "MATH", <<"C">>, <<>>),
                              "prerequisites"), "corequisites") }

MalformedLists == SeqsUpTo(MalformedCatalog, MaxRecords)
SeedLists == SeqsUpTo(Codes, MaxSeeds)

----------------------------------------------------------------------------
(* Array helpers; Array.prototype.filter is SelectSeq *)

Range(s) == {s[i] : i \in 1..Len(s)}

----------------------------------------------------------------------------
(* The node map *)

NodesHas(ns, code) == \E i \in 1..Len(ns) : ns[i].id = code

NodesGet(ns, code) ==
  IF NodesHas(ns, code)
  THEN ns[CHOOSE i \in 1..Len(ns) : ns[i].id = code]
  ELSE Undefined

NodeOf(course) ==
  [id |-> course.code, label |-> course.code, name |-> course.name,
   department |-> course.department, description |-> course.description,
   url |-> course.url]

\* addCourse without its has() test: a second record of a code adds a second node
addCourse_NoHasTest(ns, course) == Append(ns, NodeOf(course))

\* addCourse setting the node also when the code is known (Map.set keeps
\* the key's position and replaces its value)
addCourse_Overwrite(ns, course) ==
  IF ~NodesHas(ns, course.code) THEN Append(ns, NodeOf(course))
  ELSE [i \in 1..Len(ns) |->
          IF ns[i].id = course.code THEN NodeOf(course) ELSE ns[i]]

addCourse(ns, course) ==
  IF ~NodesHas(ns, course.code) THEN Append(ns, NodeOf(course)) ELSE ns

\* addPrerequisiteEdge that skips an edge the store already holds
addPrerequisiteEdge_Dedup(es, fromCourse, toCourse) ==
  LET edge == [from |-> fromCourse, to |-> toCourse,
               type |-> "prerequisite", label |-> "prerequisite"]
  IN IF edge \in Range(es) THEN es ELSE Append(es, edge)

addPrerequisiteEdge(es, fromCourse, toCourse) ==
  Append(es, [from |-> fromCourse, to |-> toCourse,
              type |-> "prerequisite", label |-> "prerequisite"])

\* addCorequisiteEdge pushing an edge of a third kind
addCorequisiteEdge_OtherType(es, course1, course2) ==
  Append(es, [from |-> course1, to |-> course2, type |-> "related"])

addCorequisiteEdge(es, fromCourse, toCourse) ==
  Append(es, [from |-> fromCourse, to |-> toCourse,
              type |-> "corequisite", label |-> "corequisite"])

----------------------------------------------------------------------------
(* buildFromCourses: the two forEach passes *)

RECURSIVE BuildNodes(_, _)
BuildNodes(ns, courses) ==
  IF courses = <<>> THEN ns
  ELSE BuildNodes(addCourse(ns, Head(courses)), Tail(courses))

\* the prerequisite loop with the arguments of addPrerequisiteEdge exchanged
RECURSIVE AddPrerequisites_Reversed(_, _, _)
AddPrerequisites_Reversed(es, prereqs, code) ==
  IF prereqs = <<>> THEN es
  ELSE AddPrerequisites_Reversed(addPrerequisiteEdge(es, code, Head(prereqs)),
                                 Tail(prereqs), code)

RECURSIVE AddPrerequisites(_, _, _)
AddPrerequisites(es, prereqs, code) ==
  IF prereqs = <<>> THEN es
  ELSE AddPrerequisites(addPrerequisiteEdge(es, Head(prereqs), code), Tail(prereqs), code)

RECURSIVE AddCorequisites(_, _, _)
AddCorequisites(es, coreqs, code) ==
  IF coreqs = <<>> THEN es
  ELSE AddCorequisites(addCorequisiteEdge(es, Head(coreqs), code), Tail(coreqs), code)

\* course.prerequisites.forEach / course.corequisites.forEach throws a
\* TypeError when the record has no such field (forEach of undefined)
TypeError == [error |-> "TypeError"]

Throws(course) ==
  "prerequisites" \notin DOMAIN course \/ "corequisites" \notin DOMAIN course

BuildThrows(courses) == \E i \in 1..Len(courses) : Throws(courses[i])

\* the second pass treating a field a record lacks as an empty list
RECURSIVE BuildEdges_Tolerant(_, _)
BuildEdges_Tolerant(es, courses) ==
  IF courses = <<>> THEN es
  ELSE LET course == Head(courses)
           prereqs == IF "prerequisites" \in DOMAIN course
                      THEN course.prerequisites ELSE <<>>
           coreqs == IF "corequisites" \in DOMAIN course
                     THEN course.corequisites ELSE <<>>
           withPre == AddPrerequisites(es, prereqs, course.code)
           withCo == AddCorequisites(withPre, coreqs, course.code)
       IN BuildEdges_Tolerant(withCo, Tail(courses))

\* the second pass; the throw abandons the pass where it happens, with the
\* edges pushed so far left in the store
RECURSIVE BuildEdges(_, _)
BuildEdges(es, courses) ==
  IF courses = <<>> THEN es
  ELSE LET course == Head(courses)
       IN IF "prerequisites" \notin DOMAIN course THEN es
          ELSE LET withPre == AddPrerequisites(es, course.prerequisites, course.code)
               IN IF "corequisites" \notin DOMAIN course THEN withPre
                  ELSE BuildEdges(AddCorequisites(withPre, course.corequisites,
                                                  course.code),
                                  Tail(courses))

----------------------------------------------------------------------------
(* The queries *)

getGraphData(ns, es) == [nodes |-> ns, edges |-> es]

getNodesByDepartment(ns, department) ==
  LET Match(node) == node.department = department
  IN SelectSeq(ns, Match)

\* getPrerequisitesFor selecting on the wrong endpoint
getPrerequisitesFor_ByFrom(ns, es, courseCode) ==
  LET Match(edge) == edge.from = courseCode /\ edge.type = "prerequisite"
      found == SelectSeq(es, Match)
  IN [i \in 1..Len(found) |-> NodesGet(ns, found[i].from)]

getPrerequisitesFor(ns, es, courseCode) ==
  LET Match(edge) == edge.to = courseCode /\ edge.type = "prerequisite"
      found == SelectSeq(es, Match)
  IN [i \in 1..Len(found) |-> NodesGet(ns, found[i].from)]

\* getDependentsFor as a copy of getPrerequisitesFor
getDependentsFor_ByTo(ns, es, courseCode) ==
  LET Match(edge) == edge.to = courseCode /\ edge.type = "prerequisite"
      found == SelectSeq(es, Match)
  IN [i \in 1..Len(found) |-> NodesGet(ns, found[i].from)]

getDependentsFor(ns, es, courseCode) ==
  LET Match(edge) == edge.from = courseCode /\ edge.type = "prerequisite"
      found == SelectSeq(es, Match)
  IN [i \in 1..Len(found) |-> NodesGet(ns, found[i].to)]

\* the forEach over connectedEdges: the queue entries it pushes, in edge order
RECURSIVE Pushes(_, _, _, _)
Pushes(connected, code, level, visited) ==
  IF connected = <<>> THEN <<>>
  ELSE LET edge == Head(connected)
           nextCode == IF edge.from = code THEN edge.to ELSE edge.from
       IN (IF nextCode \notin Range(visited)
           THEN <<[code |-> nextCode, level |-> level + 1]>>
           ELSE <<>>) \o Pushes(Tail(connected), code, level, visited)

\* the while loop dropping the entries at level = depth too
RECURSIVE Traverse_Strict(_, _, _, _)
Traverse_Strict(es, queue, visited, depth) ==
  IF queue = <<>> THEN visited
  ELSE LET code == Head(queue).code
           level == Head(queue).level
       IN IF code \in Range(visited) \/ level >= depth
          THEN Traverse_Strict(es, Tail(queue), visited, depth)
          ELSE LET added == Append(visited, code)
                   Touches(edge) == edge.from = code \/ edge.to = code
                   connectedEdges == SelectSeq(es, Touches)
               IN Traverse_Strict(es,
                                  Tail(queue) \o Pushes(connectedEdges, code, level, added),
                                  added, depth)

\* the while loop: visited is a Set, kept as the sequence of its insertion order
RECURSIVE Traverse(_, _, _, _)
Traverse(es, queue, visited, depth) ==
  IF queue = <<>> THEN visited
  ELSE LET code == Head(queue).code
           level == Head(queue).level
       IN IF code \in Range(visited) \/ level > depth
          THEN Traverse(es, Tail(queue), visited, depth)
          ELSE LET added == Append(visited, code)
                   Touches(edge) == edge.from = code \/ edge.to = code
                   connectedEdges == SelectSeq(es, Touches)
               IN Traverse(es, Tail(queue) \o Pushes(connectedEdges, code, level, added),
                           added, depth)

\* the traversal with a negative depth taken as 0
Visited_ClampDepth(es, courseCodes, depth) ==
  Traverse(es, [i \in 1..Len(courseCodes) |-> [code |-> courseCodes[i], level |-> 0]],
           <<>>, IF depth < 0 THEN 0 ELSE depth)

Visited(es, courseCodes, depth) ==
  Traverse(es, [i \in 1..Len(courseCodes) |-> [code |-> courseCodes[i], level |-> 0]],
           <<>>, depth)

\* getSubgraph without its filter(node => node)
getSubgraph_KeepUndefined(ns, es, courseCodes, depth) ==
  LET visited == Visited(es, courseCodes, depth)
      found == [i \in 1..Len(visited) |-> NodesGet(ns, visited[i])]
      Inside(edge) == edge.from \in Range(visited) /\ edge.to \in Range(visited)
  IN [nodes |-> found, edges |-> SelectSeq(es, Inside)]

\* getSubgraph keeping the edges with one endpoint visited
getSubgraph_EitherEndpoint(ns, es, courseCodes, depth) ==
  LET visited == Visited(es, courseCodes, depth)
      found == [i \in 1..Len(visited) |-> NodesGet(ns, visited[i])]
      Truthy(node) == node # Undefined
      Inside(edge) == edge.from \in Range(visited) \/ edge.to \in Range(visited)
  IN [nodes |-> SelectSeq(found, Truthy), edges |-> SelectSeq(es, Inside)]

getSubgraph(ns, es, courseCodes, depth) ==
  LET visited == Visited(es, courseCodes, depth)
      found == [i \in 1..Len(visited) |-> NodesGet(ns, visited[i])]
      Truthy(node) == node # Undefined
      Inside(edge) == edge.from \in Range(visited) /\ edge.to \in Range(visited)
  IN [nodes |-> SelectSeq(found, Truthy), edges |-> SelectSeq(es, Inside)]

getStats(ns, es) ==
  LET Pre(e) == e.type = "prerequisite"
      Co(e) == e.type = "corequisite"
  IN [totalCourses |-> Len(ns),
      totalEdges |-> Len(es),
      prerequisiteEdges |-> Len(SelectSeq(es, Pre)),
      corequisiteEdges |-> Len(SelectSeq(es, Co)),
      departments |-> Cardinality({ns[i].department : i \in 1..Len(ns)})]

----------------------------------------------------------------------------
(* The state machine *)

Idle == [op |-> "idle"]

Init ==
  /\ nodes = <<>>
  /\ edges = <<>>
  /\ call = Idle
  /\ ret = Undefined
  /\ coursesData = <<>>
  /\ listening = FALSE

BuildFromCourses(courses) ==
  /\ Len(BuildEdges(edges, courses)) <= MaxEdges
  /\ nodes' = BuildNodes(nodes, courses)
  /\ edges' = BuildEdges(edges, courses)
  /\ call' = [op |-> "buildFromCourses", courses |-> courses]
  /\ ret' = IF BuildThrows(courses) THEN TypeError ELSE Undefined

\* a call to buildFromCourses by a caller that has taken the last return value
Build ==
  /\ call = Idle
  /\ \E courses \in RecordLists : BuildFromCourses(courses)
  /\ UNCHANGED serverVars

\* the same list passed a second time, straight after the first call returned
BuildAgain ==
  /\ call.op = "buildFromCourses"
  /\ BuildFromCourses(call.courses)
  /\ UNCHANGED serverVars

GetGraphData ==
  /\ call = Idle
  /\ call' = [op |-> "getGraphData"]
  /\ ret' = getGraphData(nodes, edges)
  /\ UNCHANGED <<nodes, edges>>
  /\ UNCHANGED serverVars

GetNodesByDepartment ==
  /\ call = Idle
  /\ \E department \in Departments :
       /\ call' = [op |-> "getNodesByDepartment", department |-> department]
       /\ ret' = getNodesByDepartment(nodes, department)
  /\ UNCHANGED <<nodes, edges>>
  /\ UNCHANGED serverVars

GetPrerequisitesFor ==
  /\ call = Idle
  /\ \E courseCode \in Codes :
       /\ call' = [op |-> "getPrerequisitesFor", courseCode |-> courseCode]
       /\ ret' = getPrerequisitesFor(nodes, edges, courseCode)
  /\ UNCHANGED <<nodes, edges>>
  /\ UNCHANGED serverVars

GetDependentsFor ==
  /\ call = Idle
  /\ \E courseCode \in Codes :
       /\ call' = [op |-> "getDependentsFor", courseCode |-> courseCode]
       /\ ret' = getDependentsFor(nodes, edges, courseCode)
  /\ UNCHANGED <<nodes, edges>>
  /\ UNCHANGED serverVars

\* a getSubgraph that consumed this.edges while it traversed
GetSubgraph_Draining ==
  /\ call = Idle
  /\ \E courseCodes \in SeedLists, depth \in Depths :
       /\ call' = [op |-> "getSubgraph", courseCodes |-> courseCodes, depth |-> depth]
       /\ ret' = getSubgraph(nodes, edges, courseCodes, depth)
  /\ edges' = IF edges = <<>> THEN edges ELSE Tail(edges)
  /\ UNCHANGED nodes
  /\ UNCHANGED serverVars

GetSubgraph ==
  /\ call = Idle
  /\ \E courseCodes \in SeedLists, depth \in Depths :
       /\ call' = [op |-> "getSubgraph", courseCodes |-> courseCodes, depth |-> depth]
       /\ ret' = getSubgraph(nodes, edges, courseCodes, depth)
  /\ UNCHANGED <<nodes, edges>>
  /\ UNCHANGED serverVars

GetStats ==
  /\ call = Idle
  /\ call' = [op |-> "getStats"]
  /\ ret' = getStats(nodes, edges)
  /\ UNCHANGED <<nodes, edges>>
  /\ UNCHANGED serverVars

\* the caller takes the return value and is ready for its next call
Return ==
  /\ call # Idle
  /\ call' = Idle
  /\ ret' = Undefined
  /\ UNCHANGED <<nodes, edges>>
  /\ UNCHANGED serverVars

Next ==
  \/ Build
  \/ BuildAgain
  \/ GetGraphData
  \/ GetNodesByDepartment
  \/ GetPrerequisitesFor
  \/ GetDependentsFor
  \/ GetSubgraph
  \/ GetStats
  \/ Return

Spec == Init /\ [][Next]_vars

----------------------------------------------------------------------------
(* What the claims refer to *)

NodeIds == {nodes[i].id : i \in 1..Len(nodes)}

CodesOf(courses) == {courses[i].code : i \in 1..Len(courses)}

IsNodeFor(v, code) == NodesHas(nodes, code) /\ v = NodesGet(nodes, code)

\* the codes one undirected hop away from a code of S, over edges of either kind
Neighbours(es, S) ==
  {e.to : e \in {x \in Range(es) : x.from \in S}}
    \cup {e.from : e \in {x \in Range(es) : x.to \in S}}

\* the codes within k undirected hops of a code of S
RECURSIVE Within(_, _, _)
Within(es, S, k) ==
  IF k <= 0 THEN S
  ELSE LET W == Within(es, S, k - 1) IN W \cup Neighbours(es, W)

\* the codes within depth hops of a seed; none when depth is negative
Reached(es, courseCodes, depth) ==
  IF depth < 0 THEN {} ELSE Within(es, Range(courseCodes), depth)

NoRepeats(s) == \A i, j \in 1..Len(s) : i # j => s[i] # s[j]

PrerequisiteEdge(p, c) ==
  [from |-> p, to |-> c, type |-> "prerequisite", label |-> "prerequisite"]

----------------------------------------------------------------------------
(* C1..C10 *)

\* C1 (as claimed): a second buildFromCourses call with the list just passed leaves
\* getGraphData() (node sequence and edge sequence) as it was after the first call.
C1_IdempotentRebuild ==
  [][(call.op = "buildFromCourses" /\ call'.op = "buildFromCourses"
        /\ call'.courses = call.courses)
      => getGraphData(nodes', edges') = getGraphData(nodes, edges)]_vars

\* C2 (as claimed): after any buildFromCourses(R2), also one that follows an earlier
\* build, the node set and the edge sequence are those of a fresh store on which only
\* buildFromCourses(R2) was called.
C2_RebuildReplaces ==
  call.op = "buildFromCourses" =>
    /\ Range(nodes) = Range(BuildNodes(<<>>, call.courses))
    /\ edges = BuildEdges(<<>>, call.courses)

\* C3: buildFromCourses on a fresh store leaves as many nodes (getGraphData().nodes.length
\* and getStats().totalCourses) as the record list has distinct codes, no two with one id.
C3_NodeUniqueness ==
  [][(nodes = <<>> /\ edges = <<>> /\ call'.op = "buildFromCourses")
      => /\ Len(getGraphData(nodes', edges').nodes) = Cardinality(CodesOf(call'.courses))
         /\ getStats(nodes', edges').totalCourses = Cardinality(CodesOf(call'.courses))
         /\ \A i, j \in 1..Len(nodes') : i # j => nodes'[i].id # nodes'[j].id]_vars

\* C3 witness: a fresh store was built from two records with the same code.
C3_Witness ==
  /\ call.op = "buildFromCourses"
  /\ Len(call.courses) = 2
  /\ call.courses[1].code = call.courses[2].code
  /\ call.courses[1] # call.courses[2]
  /\ nodes = BuildNodes(<<>>, call.courses)
  /\ edges = BuildEdges(<<>>, call.courses)
  /\ Len(nodes) = 1

\* C4 (as claimed): for every stored prerequisite edge p -> c, the node for c is in
\* getDependentsFor(p) and the node for p is in getPrerequisitesFor(c).
C4_EdgeDirection_AsClaimed ==
  \A k \in 1..Len(edges) :
    edges[k].type = "prerequisite" =>
      LET p == edges[k].from
          c == edges[k].to
          dependents == getDependentsFor(nodes, edges, p)
          prerequisites == getPrerequisitesFor(nodes, edges, c)
      IN /\ \E i \in 1..Len(dependents) : IsNodeFor(dependents[i], c)
         /\ \E i \in 1..Len(prerequisites) : IsNodeFor(prerequisites[i], p)

\* C4 (amended): for every stored prerequisite edge p -> c, the node for c is in
\* getDependentsFor(p), and the node for p is in getPrerequisitesFor(c) whenever p
\* has a node.
C4_EdgeDirection ==
  \A k \in 1..Len(edges) :
    edges[k].type = "prerequisite" =>
      LET p == edges[k].from
          c == edges[k].to
          dependents == getDependentsFor(nodes, edges, p)
          prerequisites == getPrerequisitesFor(nodes, edges, c)
      IN /\ \E i \in 1..Len(dependents) : IsNodeFor(dependents[i], c)
         /\ NodesHas(nodes, p) =>
              \E i \in 1..Len(prerequisites) : IsNodeFor(prerequisites[i], p)

\* C4 witness: getPrerequisitesFor(B) returned the node of A for the edge A -> B, in a
\* store that also holds a prerequisite edge whose from code has no node.
C4_Witness ==
  /\ call.op = "getPrerequisitesFor"
  /\ call.courseCode = "B"
  /\ PrerequisiteEdge("A", "B") \in Range(edges)
  /\ \E i \in 1..Len(ret) : IsNodeFor(ret[i], "A")
  /\ \E k \in 1..Len(edges) :
       edges[k].type = "prerequisite" /\ ~NodesHas(nodes, edges[k].from)

\* C5 (as claimed): every element getPrerequisitesFor and getDependentsFor return is a
\* node of the graph, and getPrerequisitesFor is empty for a course whose prerequisite
\* codes have no node.
C5_DanglingSkipped ==
  /\ call.op \in {"getPrerequisitesFor", "getDependentsFor"} =>
       \A i \in 1..Len(ret) : ret[i] \in Range(nodes)
  /\ (call.op = "getPrerequisitesFor"
        /\ \A k \in 1..Len(edges) :
             (edges[k].to = call.courseCode /\ edges[k].type = "prerequisite")
               => ~NodesHas(nodes, edges[k].from))
       => ret = <<>>

\* C6 (as claimed): for a code without a node getPrerequisitesFor and getDependentsFor
\* return the empty sequence, and getNodesByDepartment returns the empty sequence for
\* a department no node stores.
C6_UnknownEmpty_AsClaimed ==
  /\ (call.op \in {"getPrerequisitesFor", "getDependentsFor"}
        /\ ~NodesHas(nodes, call.courseCode)) => ret = <<>>
  /\ (call.op = "getNodesByDepartment"
        /\ \A i \in 1..Len(nodes) : nodes[i].department # call.department) => ret = <<>>

\* C6 (amended): in a store filled by buildFromCourses, for a code without a node
\* getPrerequisitesFor returns the empty sequence, and getDependentsFor returns one
\* node per prerequisite edge leaving that code, so the empty sequence exactly when the
\* code is no prerequisite of a record; getNodesByDepartment returns the empty
\* sequence for a department no node stores.
C6_UnknownEmpty ==
  /\ (call.op = "getPrerequisitesFor" /\ ~NodesHas(nodes, call.courseCode)) => ret = <<>>
  /\ (call.op = "getDependentsFor" /\ ~NodesHas(nodes, call.courseCode)) =>
       /\ Len(ret) = Cardinality({k \in 1..Len(edges) :
                        edges[k].from = call.courseCode /\ edges[k].type = "prerequisite"})
       /\ \A i \in 1..Len(ret) : ret[i] \in Range(nodes)
  /\ (call.op = "getNodesByDepartment"
        /\ \A i \in 1..Len(nodes) : nodes[i].department # call.department) => ret = <<>>

\* C6 witness: a query for a code that has no node, while the store holds edges.
C6_Witness ==
  /\ call.op \in {"getPrerequisitesFor", "getDependentsFor"}
  /\ ~NodesHas(nodes, call.courseCode)
  /\ \E k \in 1..Len(edges) : edges[k].from = call.courseCode
  /\ nodes # <<>>

\* C7: for depth >= 0 the nodes getSubgraph returns are exactly the nodes whose code is
\* within depth undirected hops of a seed, over edges of either kind, each node once;
\* on the chain A -> B -> C -> D, getSubgraph([B], 1) returns the nodes A, B, C and the
\* edges A -> B, B -> C.
C7_SubgraphRadius ==
  (call.op = "getSubgraph" /\ call.depth >= 0) =>
    /\ Range(ret.nodes) =
         {NodesGet(nodes, c) : c \in Reached(edges, call.courseCodes, call.depth) \cap NodeIds}
    /\ NoRepeats(ret.nodes)
    /\ (/\ NodeIds = {"A", "B", "C", "D"}
        /\ edges = <<PrerequisiteEdge("A", "B"), PrerequisiteEdge("B", "C"),
                     PrerequisiteEdge("C", "D")>>
        /\ call.courseCodes = <<"B">>
        /\ call.depth = 1)
       => /\ {ret.nodes[i].id : i \in 1..Len(ret.nodes)} = {"A", "B", "C"}
          /\ Len(ret.nodes) = 3
          /\ ret.edges = <<PrerequisiteEdge("A", "B"), PrerequisiteEdge("B", "C")>>

\* C7 witness: getSubgraph([B], 1) on the chain A -> B -> C -> D returned three nodes.
C7_Witness ==
  /\ call.op = "getSubgraph"
  /\ call.courseCodes = <<"B">>
  /\ call.depth = 1
  /\ NodeIds = {"A", "B", "C", "D"}
  /\ edges = <<PrerequisiteEdge("A", "B"), PrerequisiteEdge("B", "C"),
               PrerequisiteEdge("C", "D")>>
  /\ Len(ret.nodes) = 3

\* C8 (as claimed): getSubgraph with depth 0 returns exactly the seeds that are nodes,
\* and no edge.
C8_DepthZero_AsClaimed ==
  (call.op = "getSubgraph" /\ call.depth = 0) =>
    /\ Range(ret.nodes) = {NodesGet(nodes, c) : c \in Range(call.courseCodes) \cap NodeIds}
    /\ NoRepeats(ret.nodes)
    /\ ret.edges = <<>>

\* C8 (amended): getSubgraph with depth 0 returns exactly the seeds that are nodes, each
\* once, and the stored edges whose two endpoints are both seed codes (a self-loop on a
\* seed, an edge between two seeds), in stored order.
C8_DepthZero ==
  (call.op = "getSubgraph" /\ call.depth = 0) =>
    /\ Range(ret.nodes) = {NodesGet(nodes, c) : c \in Range(call.courseCodes) \cap NodeIds}
    /\ NoRepeats(ret.nodes)
    /\ LET BothSeeds(e) == e.from \in Range(call.courseCodes)
                             /\ e.to \in Range(call.courseCodes)
       IN ret.edges = SelectSeq(edges, BothSeeds)

\* C8 witness: depth 0 with a seed that is a node, a seed that is none, and an edge
\* between the two seeds.
C8_Witness ==
  /\ call.op = "getSubgraph"
  /\ call.depth = 0
  /\ \E c \in Range(call.courseCodes) : NodesHas(nodes, c)
  /\ \E c \in Range(call.courseCodes) : ~NodesHas(nodes, c)
  /\ Len(ret.nodes) = 1
  /\ ret.edges # <<>>

\* C9: the edges getSubgraph returns are exactly the stored edges, in stored order and
\* with duplicates, whose two endpoints are both within depth hops of a seed, also an
\* edge between two codes at exactly depth hops that the traversal never followed.
C9_SubgraphEdges ==
  call.op = "getSubgraph" =>
    LET reached == Reached(edges, call.courseCodes, call.depth)
        Inside(e) == e.from \in reached /\ e.to \in reached
    IN ret.edges = SelectSeq(edges, Inside)

\* C9 witness: getSubgraph([A], 1) returned the edge B -> C, whose endpoints are both
\* exactly one hop from A.
C9_Witness ==
  /\ call.op = "getSubgraph"
  /\ call.courseCodes = <<"A">>
  /\ call.depth = 1
  /\ PrerequisiteEdge("B", "C") \in Range(ret.edges)
  /\ {"B", "C"} \subseteq Within(edges, {"A"}, 1)

\* C9 second case: a duplicated stored edge is returned twice.
C9_Duplicates ==
  /\ call.op = "getSubgraph"
  /\ \E i, j \in 1..Len(ret.edges) : i # j /\ ret.edges[i] = ret.edges[j]

\* C10 (as claimed): getSubgraph with a negative depth returns what depth 0 returns.
C10_NegativeDepth_AsClaimed ==
  (call.op = "getSubgraph" /\ call.depth < 0) =>
    ret = getSubgraph(nodes, edges, call.courseCodes, 0)

\* C10 (amended): getSubgraph with a negative depth returns no node and no edge,
\* whatever the seeds.
C10_NegativeDepth ==
  (call.op = "getSubgraph" /\ call.depth < 0) =>
    ret = [nodes |-> <<>>, edges |-> <<>>]

\* C10 witness: a negative depth with a seed that is a node.
C10_Witness ==
  /\ call.op = "getSubgraph"
  /\ call.depth < 0
  /\ \E c \in Range(call.courseCodes) : NodesHas(nodes, c)
  /\ edges # <<>>

----------------------------------------------------------------------------
(* The store driven by direct calls of addCourse, addPrerequisiteEdge and  *)
(* addCorequisiteEdge as well as buildFromCourses                          *)

\* the codes and records the direct calls are made with
ApiCodes == {"A", "B"}
ApiCourses == {course \in Catalog : course.code \in ApiCodes}
ApiRecordLists == SeqsUpTo(ApiCourses, MaxRecords)

ApiAddCourse ==
  /\ call = Idle
  /\ \E course \in ApiCourses :
       /\ nodes' = addCourse(nodes, course)
       /\ call' = [op |-> "addCourse", code |-> course.code]
  /\ ret' = Undefined
  /\ UNCHANGED edges
  /\ UNCHANGED serverVars

ApiAddPrerequisiteEdge ==
  /\ call = Idle
  /\ Len(edges) < MaxEdges
  /\ \E fromCourse \in ApiCodes, toCourse \in ApiCodes :
       edges' = addPrerequisiteEdge(edges, fromCourse, toCourse)
  /\ call' = [op |-> "addPrerequisiteEdge"]
  /\ ret' = Undefined
  /\ UNCHANGED nodes
  /\ UNCHANGED serverVars

ApiAddCorequisiteEdge ==
  /\ call = Idle
  /\ Len(edges) < MaxEdges
  /\ \E course1 \in ApiCodes, course2 \in ApiCodes :
       edges' = addCorequisiteEdge(edges, course1, course2)
  /\ call' = [op |-> "addCorequisiteEdge"]
  /\ ret' = Undefined
  /\ UNCHANGED nodes
  /\ UNCHANGED serverVars

ApiBuild ==
  /\ call = Idle
  /\ \E courses \in ApiRecordLists : BuildFromCourses(courses)
  /\ UNCHANGED serverVars

NextApi ==
  \/ ApiAddCourse
  \/ ApiAddPrerequisiteEdge
  \/ ApiAddCorequisiteEdge
  \/ ApiBuild
  \/ GetStats
  \/ Return

SpecApi == Init /\ [][NextApi]_vars

EdgeTypes == {"prerequisite", "corequisite"}

\* C11: in every state of the store reached by addCourse,
\* addPrerequisiteEdge, addCorequisiteEdge and buildFromCourses calls, every
\* edge's type is prerequisite or corequisite, and the stats of the store
\* (and every getStats return value) have
\* totalEdges = prerequisiteEdges + corequisiteEdges.
C11_StatsConsistency ==
  /\ \A i \in 1..Len(edges) : edges[i].type \in EdgeTypes
  /\ LET stats == getStats(nodes, edges)
     IN stats.totalEdges = stats.prerequisiteEdges + stats.corequisiteEdges
  /\ call.op = "getStats" =>
       /\ ret.totalEdges = Len(edges)
       /\ ret.totalEdges = ret.prerequisiteEdges + ret.corequisiteEdges

\* getStats called on a store that holds edges of both types, one of them
\* pushed by a direct call between codes without a node
C11_Witness ==
  /\ call.op = "getStats"
  /\ ret.prerequisiteEdges >= 1
  /\ ret.corequisiteEdges >= 1
  /\ \E i \in 1..Len(edges) :
       ~NodesHas(nodes, edges[i].from) /\ ~NodesHas(nodes, edges[i].to)

----------------------------------------------------------------------------
(* The server: the startup load and POST /api/suggest-courses, in the      *)
(* variant that reads orGroups (src/unnamed/part_001) and in the variant   *)
(* that reads completedCourses only (src/server.js)                        *)

MaxCompleted == 2   \* longest completedCourses array of a request
MaxGroups == 2      \* longest orGroups array of a request

\* the course codes a request names as completed, in the case the client typed
CompletedCodes == {"A", "C", "b"}
CompletedLists == SeqsUpTo(CompletedCodes, MaxCompleted)

\* String.prototype.toUpperCase on the codes above and on the department
\* strings of a request
ToUpperCase(c) == IF c = "b" THEN "B" ELSE IF c = "cs" THEN "CS" ELSE c

\* req.body.orGroups || null : absent (null), or an array of groups of codes
NoOrGroups == [given |-> FALSE, groups |-> <<>>]
Groups == {<<"A">>, <<"B">>, <<"A", "C">>}
OrGroupsInputs ==
  {NoOrGroups} \cup {[given |-> TRUE, groups |-> g] : g \in SeqsUpTo(Groups, MaxGroups)}

\* the three-course catalogue of the eligibility example
Scenario ==
  << Course("A", "Intro", "CS", <<>>, <<>>),
     Course("B", "Data", "CS", <<"A">>, <<>>),
     Course("C", "Systems", "CS", <<"A", "B">>, <<>>) >>

\* what data/courses.json can hold when the server starts
DataFiles == RecordLists \cup {Scenario} \cup MalformedLists

\* course.prerequisites || [] and course.corequisites || []
Prereqs(course) ==
  IF "prerequisites" \in DOMAIN course THEN course.prerequisites ELSE <<>>

Coreqs(course) ==
  IF "corequisites" \in DOMAIN course THEN course.corequisites ELSE <<>>

\* isPrereqSatisfied consulting the completed set in OR mode as well
isPrereqSatisfied_Merged(completedSet, orGroups, prereq) ==
  \/ \E i \in 1..Len(orGroups.groups) : prereq \in Range(orGroups.groups[i])
  \/ prereq \in completedSet

isPrereqSatisfied(completedSet, orGroups, prereq) ==
  IF orGroups.given
  THEN \E i \in 1..Len(orGroups.groups) : prereq \in Range(orGroups.groups[i])
  ELSE prereq \in completedSet

\* isAlreadyCompleted that skips no course
isAlreadyCompleted_Never(completedSet, orGroups, code) == FALSE

isAlreadyCompleted(completedSet, orGroups, code) ==
  IF orGroups.given
  THEN \E i \in 1..Len(orGroups.groups) : code \in Range(orGroups.groups[i])
  ELSE code \in completedSet

\* the missing list keeping the satisfied codes instead
Missing_Satisfied(list, completedSet, orGroups) ==
  LET Met(r) == isPrereqSatisfied(completedSet, orGroups, r)
  IN SelectSeq(list, Met)

\* prereqs.filter(p => !isPrereqSatisfied(p))
Missing(list, completedSet, orGroups) ==
  LET Unmet(r) == ~isPrereqSatisfied(completedSet, orGroups, r)
  IN SelectSeq(list, Unmet)

\* prereqs.filter(p => isPrereqSatisfied(p))
Completed(list, completedSet, orGroups) ==
  LET Met(r) == isPrereqSatisfied(completedSet, orGroups, r)
  IN SelectSeq(list, Met)

\* a.code.localeCompare(b.code) on the codes of the catalogue
CodeRank == [c \in Codes |->
               IF c = "A" THEN 1 ELSE IF c = "B" THEN 2 ELSE IF c = "C" THEN 3 ELSE 4]

localeCompare(a, b) == CodeRank[a] - CodeRank[b]

\* Array.prototype.sort with the comparator above; the sort is stable
RECURSIVE SortedInsert(_, _)
SortedInsert(sorted, entry) ==
  IF sorted = <<>> THEN <<entry>>
  ELSE IF localeCompare(Head(sorted).code, entry.code) <= 0
       THEN <<Head(sorted)>> \o SortedInsert(Tail(sorted), entry)
       ELSE <<entry>> \o sorted

RECURSIVE SortFrom(_, _)
SortFrom(sorted, rest) ==
  IF rest = <<>> THEN sorted
  ELSE SortFrom(SortedInsert(sorted, Head(rest)), Tail(rest))

\* the sort left out
SortByCode_Unsorted(list) == list

SortByCode(list) == SortFrom(<<>>, list)

\* the object pushed onto a tier
Suggestion(course, prerequisites, corequisites, missingPrereqs, missingCoreqs) ==
  [code |-> course.code, name |-> course.name, department |-> course.department,
   prerequisites |-> prerequisites, corequisites |-> corequisites,
   missingPrereqs |-> missingPrereqs, missingCoreqs |-> missingCoreqs]

\* the branch of the forEach body a course takes, with canTake decided by
\* the prerequisites alone
TierOf_PrereqsOnly(course, completedSet, orGroups) ==
  LET prereqs == Prereqs(course)
      coreqs == Coreqs(course)
  IN IF isAlreadyCompleted(completedSet, orGroups, course.code) THEN "skipped"
     ELSE IF Len(prereqs) = 0 /\ Len(coreqs) = 0 THEN "noPrereqs"
     ELSE IF Len(Missing(prereqs, completedSet, orGroups)) = 0 THEN "canTake"
     ELSE IF Len(Completed(prereqs, completedSet, orGroups)) > 0
             \/ Len(Completed(coreqs, completedSet, orGroups)) > 0
          THEN "partialPrereqs"
     ELSE "omitted"

\* the branch of the forEach body a course takes (part_001, lines 249-301)
TierOf(course, completedSet, orGroups) ==
  LET prereqs == Prereqs(course)
      coreqs == Coreqs(course)
  IN IF isAlreadyCompleted(completedSet, orGroups, course.code) THEN "skipped"
     ELSE IF Len(prereqs) = 0 /\ Len(coreqs) = 0 THEN "noPrereqs"
     ELSE IF Len(Missing(prereqs, completedSet, orGroups)) = 0
             /\ Len(Missing(coreqs, completedSet, orGroups)) = 0
          THEN "canTake"
     ELSE IF Len(Completed(prereqs, completedSet, orGroups)) > 0
             \/ Len(Completed(coreqs, completedSet, orGroups)) > 0
          THEN "partialPrereqs"
     ELSE "omitted"

\* the object the forEach body pushes for a course of the given tier
SuggestionFor(course, tier, completedSet, orGroups) ==
  IF tier = "noPrereqs" THEN Suggestion(course, <<>>, <<>>, <<>>, <<>>)
  ELSE IF tier = "canTake"
       THEN Suggestion(course, Prereqs(course), Coreqs(course), <<>>, <<>>)
  ELSE Suggestion(course, Prereqs(course), Coreqs(course),
                  Missing(Prereqs(course), completedSet, orGroups),
                  Missing(Coreqs(course), completedSet, orGroups))

\* POST /api/suggest-courses of the variant that reads orGroups
suggestCourses(courses, completedCourses, orGroups) ==
  LET completedSet == {ToUpperCase(c) : c \in Range(completedCourses)}
      Pushed(tier) ==
        LET InTier(course) == TierOf(course, completedSet, orGroups) = tier
            chosen == SelectSeq(courses, InTier)
        IN [i \in 1..Len(chosen) |->
              SuggestionFor(chosen[i], tier, completedSet, orGroups)]
  IN [canTake |-> SortByCode(Pushed("canTake")),
      partialPrereqs |-> SortByCode(Pushed("partialPrereqs")),
      noPrereqs |-> SortByCode(Pushed("noPrereqs"))]

\* the branch of the forEach body a course takes in server.js, lines 177-224:
\* the last branch is a plain else
TierOfCompletedOnly(course, completedSet) ==
  LET prereqs == Prereqs(course)
      coreqs == Coreqs(course)
      NotCompleted(r) == r \notin completedSet
  IN IF course.code \in completedSet THEN "skipped"
     ELSE IF Len(prereqs) = 0 /\ Len(coreqs) = 0 THEN "noPrereqs"
     ELSE IF Len(SelectSeq(prereqs, NotCompleted)) = 0
             /\ Len(SelectSeq(coreqs, NotCompleted)) = 0
          THEN "canTake"
     ELSE "partialPrereqs"

\* POST /api/suggest-courses of server.js
suggestCoursesCompletedOnly(courses, completedCourses) ==
  LET completedSet == {ToUpperCase(c) : c \in Range(completedCourses)}
      NotCompleted(r) == r \notin completedSet
      Pushed(tier) ==
        LET InTier(course) == TierOfCompletedOnly(course, completedSet) = tier
            chosen == SelectSeq(courses, InTier)
        IN [i \in 1..Len(chosen) |->
              IF tier = "noPrereqs"
              THEN Suggestion(chosen[i], <<>>, <<>>, <<>>, <<>>)
              ELSE IF tier = "canTake"
              THEN Suggestion(chosen[i], Prereqs(chosen[i]), Coreqs(chosen[i]),
                              <<>>, <<>>)
              ELSE Suggestion(chosen[i], Prereqs(chosen[i]), Coreqs(chosen[i]),
                              SelectSeq(Prereqs(chosen[i]), NotCompleted),
                              SelectSeq(Coreqs(chosen[i]), NotCompleted))]
  IN [canTake |-> SortByCode(Pushed("canTake")),
      partialPrereqs |-> SortByCode(Pushed("partialPrereqs")),
      noPrereqs |-> SortByCode(Pushed("noPrereqs"))]

\* req.query.dept: a department string, or none (the empty string here)
DeptInputs == Departments \cup {""}

\* parseInt(req.query.limit) || 500 : NaN and 0 give the default
DefaultLimit == 500
LimitInputs == {0, 1, 2}
LimitOf(limit) == IF limit = 0 THEN DefaultLimit ELSE limit

\* Array.prototype.slice(0, limit) for limit >= 0
Slice(list, limit) ==
  SubSeq(list, 1, IF limit < Len(list) THEN limit ELSE Len(list))

\* the dept branch keeping only the edges with both endpoints in the department
graphOfDepartment_BothEndpoints(ns, es, dept) ==
  LET deptNodes == getNodesByDepartment(ns, ToUpperCase(dept))
      deptNodeCodes == {deptNodes[i].id : i \in 1..Len(deptNodes)}
      Relevant(e) == e.from \in deptNodeCodes /\ e.to \in deptNodeCodes
  IN [nodes |-> deptNodes, edges |-> SelectSeq(es, Relevant)]

\* GET /api/graph, the branch taken when dept is given (server.js 39-63)
graphOfDepartment(ns, es, dept) ==
  LET deptNodes == getNodesByDepartment(ns, ToUpperCase(dept))
      deptNodeCodes == {deptNodes[i].id : i \in 1..Len(deptNodes)}
      Relevant(e) == e.from \in deptNodeCodes \/ e.to \in deptNodeCodes
      relevantEdges == SelectSeq(es, Relevant)
      additionalNodeCodes ==
        ({relevantEdges[i].from : i \in 1..Len(relevantEdges)}
           \cup {relevantEdges[i].to : i \in 1..Len(relevantEdges)})
          \ deptNodeCodes
      allGraphNodes == getGraphData(ns, es).nodes
      Additional(n) == n.id \in additionalNodeCodes
      additionalNodes == SelectSeq(allGraphNodes, Additional)
  IN [nodes |-> deptNodes \o additionalNodes, edges |-> relevantEdges]

\* GET /api/graph, the branch taken without dept (server.js 64-75)
graphLimited(ns, es, limit) ==
  LET allData == getGraphData(ns, es)
      shown == Slice(allData.nodes, limit)
      Touches(e) == \E i \in 1..Len(shown) : shown[i].id = e.from \/ shown[i].id = e.to
  IN [nodes |-> shown,
      edges |-> SelectSeq(allData.edges, Touches),
      total |-> Len(allData.nodes),
      showing |-> IF limit < Len(allData.nodes) THEN limit ELSE Len(allData.nodes)]

\* loadCourseData: the file is read and parsed, and the graph built from it;
\* a TypeError of buildFromCourses ends in the catch, which only logs
LoadCourseData ==
  /\ call = Idle
  /\ ~listening
  /\ \E courses \in DataFiles :
       /\ coursesData' = courses
       /\ BuildFromCourses(courses)
  /\ UNCHANGED listening

\* loadCourseData when readFile or JSON.parse throws: the catch only logs
LoadCourseDataFails ==
  /\ call = Idle
  /\ ~listening
  /\ call' = [op |-> "loadCourseData", error |-> "caught"]
  /\ ret' = Undefined
  /\ UNCHANGED <<nodes, edges, coursesData, listening>>

\* loadCourseData().then(() => app.listen(...))
Listen ==
  /\ call.op \in {"buildFromCourses", "loadCourseData"}
  /\ ~listening
  /\ listening' = TRUE
  /\ call' = Idle
  /\ ret' = Undefined
  /\ UNCHANGED <<nodes, edges, coursesData>>

SuggestCourses ==
  /\ call = Idle
  /\ listening
  /\ \E completedCourses \in CompletedLists, orGroups \in OrGroupsInputs :
       /\ call' = [op |-> "suggestCourses",
                   completedCourses |-> completedCourses, orGroups |-> orGroups]
       /\ ret' = suggestCourses(coursesData, completedCourses, orGroups)
  /\ UNCHANGED <<nodes, edges>>
  /\ UNCHANGED serverVars

SuggestCoursesCompletedOnly ==
  /\ call = Idle
  /\ listening
  /\ \E completedCourses \in CompletedLists :
       /\ call' = [op |-> "suggestCoursesCompletedOnly",
                   completedCourses |-> completedCourses]
       /\ ret' = suggestCoursesCompletedOnly(coursesData, completedCourses)
  /\ UNCHANGED <<nodes, edges>>
  /\ UNCHANGED serverVars

GetGraph ==
  /\ call = Idle
  /\ listening
  /\ \E dept \in DeptInputs, limit \in LimitInputs :
       /\ call' = [op |-> "getGraph", dept |-> dept, limit |-> limit]
       /\ ret' = IF dept # ""
                 THEN graphOfDepartment(nodes, edges, dept)
                 ELSE graphLimited(nodes, edges, LimitOf(limit))
  /\ UNCHANGED <<nodes, edges>>
  /\ UNCHANGED serverVars

\* the response is sent and the server waits for the next request
Respond ==
  /\ listening
  /\ Return

NextServer ==
  \/ LoadCourseData
  \/ LoadCourseDataFails
  \/ Listen
  \/ SuggestCourses
  \/ SuggestCoursesCompletedOnly
  \/ GetGraph
  \/ Respond

SpecServer == Init /\ [][NextServer]_vars

----------------------------------------------------------------------------
(* What the claims about suggest-courses refer to *)

SuggestOps == {"suggestCourses", "suggestCoursesCompletedOnly"}

\* the request's OR-groups; the variant of server.js has no such parameter
GivenGroups ==
  IF call.op = "suggestCourses" /\ call.orGroups.given
  THEN UNION {Range(call.orGroups.groups[i]) : i \in 1..Len(call.orGroups.groups)}
  ELSE {}

OrMode == call.op = "suggestCourses" /\ call.orGroups.given

\* the active predicate: membership of some group when orGroups is given,
\* membership of the (upper-cased) completed set otherwise
Satisfied(r) ==
  IF OrMode THEN r \in GivenGroups
  ELSE r \in {ToUpperCase(c) : c \in Range(call.completedCourses)}

Requirements(course) == Range(Prereqs(course)) \cup Range(Coreqs(course))

AllSatisfied(course) == \A r \in Requirements(course) : Satisfied(r)

SomeSatisfied(course) == \E r \in Requirements(course) : Satisfied(r)

\* entry e of a tier is the one pushed for the record course
EntryOf(e, course) ==
  /\ e.code = course.code
  /\ e.name = course.name
  /\ e.department = course.department

Listed(tier, course) == \E i \in 1..Len(tier) : EntryOf(tier[i], course)

Records == Range(coursesData)

\* C12: a course that is not itself completed is in canTake iff it has at
\* least one prerequisite or corequisite and every one of them is satisfied
\* under the active predicate; every canTake entry has empty missing lists.
C12_CanTake ==
  call.op \in SuggestOps =>
    /\ \A course \in Records :
         ~Satisfied(course.code) =>
           (Listed(ret.canTake, course)
              <=> (Requirements(course) # {} /\ AllSatisfied(course)))
    /\ \A i \in 1..Len(ret.canTake) :
         ret.canTake[i].missingPrereqs = <<>> /\ ret.canTake[i].missingCoreqs = <<>>

\* both handlers put a course with a prerequisite and a corequisite, all
\* satisfied, into canTake
C12_Witness ==
  /\ call.op \in SuggestOps
  /\ \E course \in Records :
       /\ Prereqs(course) # <<>>
       /\ Coreqs(course) # <<>>
       /\ ~Satisfied(course.code)
       /\ Listed(ret.canTake, course)

InSomeTier(course) ==
  \/ Listed(ret.canTake, course)
  \/ Listed(ret.partialPrereqs, course)
  \/ Listed(ret.noPrereqs, course)

\* C13: a course that is not completed is in partialPrereqs iff it has at
\* least one requirement, not all of them satisfied, and at least one of
\* them satisfied; a course with requirements none of which is satisfied is
\* in none of the three tiers.
C13_PartiallyReady ==
  call.op \in SuggestOps =>
    \A course \in Records :
      ~Satisfied(course.code) =>
        /\ Listed(ret.partialPrereqs, course)
             <=> (/\ Requirements(course) # {}
                  /\ ~AllSatisfied(course)
                  /\ SomeSatisfied(course))
        /\ (Requirements(course) # {} /\ ~SomeSatisfied(course))
             => ~InSomeTier(course)

\* C13 for the handler that reads orGroups alone
C13_PartiallyReadyWithGroups ==
  call.op = "suggestCourses" => C13_PartiallyReady

\* C14: a course is in noPrereqs iff it is not completed and has no
\* prerequisites and no corequisites; a course whose code is completed under
\* the active predicate is in none of the three tiers.
C14_NoPrerequisites ==
  call.op \in SuggestOps =>
    \A course \in Records :
      /\ Listed(ret.noPrereqs, course)
           <=> (~Satisfied(course.code) /\ Requirements(course) = {})
      /\ Satisfied(course.code) => ~InSomeTier(course)

\* a request whose OR-groups name the code of one loaded course, which is
\* in no tier, while another loaded course without requirements is in
\* noPrereqs
C14_Witness ==
  /\ OrMode
  /\ \E course \in Records : Satisfied(course.code) /\ ~InSomeTier(course)
  /\ \E course \in Records :
       /\ Requirements(course) = {}
       /\ ~Satisfied(course.code)
       /\ Listed(ret.noPrereqs, course)

Unsatisfied(list) ==
  LET Unmet(r) == ~Satisfied(r)
  IN SelectSeq(list, Unmet)

\* C16: every entry's missingPrereqs is the course's prerequisites that are
\* not satisfied, in the record's order, and its missingCoreqs the
\* corequisites that are not satisfied; for the catalogue A (no
\* prerequisites), B (prerequisite A), C (prerequisites A, B) and
\* completedCourses = [A]: noPrereqs is empty, canTake is [B], and
\* partialPrereqs is [C] with missingPrereqs = [B].
C16_MissingLists ==
  call.op \in SuggestOps =>
    /\ \A tier \in {ret.canTake, ret.partialPrereqs, ret.noPrereqs} :
         \A i \in 1..Len(tier) :
           \E course \in Records :
             /\ EntryOf(tier[i], course)
             /\ tier[i].missingPrereqs = Unsatisfied(Prereqs(course))
             /\ tier[i].missingCoreqs = Unsatisfied(Coreqs(course))
    /\ (coursesData = Scenario /\ call.completedCourses = <<"A">> /\ ~OrMode) =>
         /\ ret.noPrereqs = <<>>
         /\ Len(ret.canTake) = 1
         /\ ret.canTake[1].code = "B"
         /\ Len(ret.partialPrereqs) = 1
         /\ ret.partialPrereqs[1].code = "C"
         /\ ret.partialPrereqs[1].missingPrereqs = <<"B">>

\* the example's request, answered
C16_Witness ==
  /\ call.op \in SuggestOps
  /\ coursesData = Scenario
  /\ call.completedCourses = <<"A">>
  /\ ~OrMode
  /\ Len(ret.partialPrereqs) = 1
  /\ ret.partialPrereqs[1].missingPrereqs = <<"B">>

Sorted(tier) ==
  \A i \in 1..Len(tier) - 1 : CodeRank[tier[i].code] <= CodeRank[tier[i + 1].code]

\* C17: canTake, partialPrereqs and noPrereqs are each sorted in
\* non-decreasing order of course code.
C17_Sorted ==
  call.op \in SuggestOps =>
    Sorted(ret.canTake) /\ Sorted(ret.partialPrereqs) /\ Sorted(ret.noPrereqs)

\* a tier of two entries whose records were loaded in descending code order
C17_Witness ==
  /\ call.op \in SuggestOps
  /\ Len(coursesData) = 2
  /\ CodeRank[coursesData[1].code] > CodeRank[coursesData[2].code]
  /\ Len(ret.canTake) = 2

----------------------------------------------------------------------------
(* buildFromCourses called with records that lack a field *)

BuildMalformed ==
  /\ call = Idle
  /\ \E courses \in MalformedLists : BuildFromCourses(courses)
  /\ UNCHANGED serverVars

NextMalformed ==
  \/ BuildMalformed
  \/ GetGraphData
  \/ GetStats
  \/ Return

SpecMalformed == Init /\ [][NextMalformed]_vars

\* C18: buildFromCourses raises no error for a record that lacks the
\* prerequisites or the corequisites field; the record becomes a node and
\* contributes no edges for the missing field, and every other record's
\* nodes and edges are built as usual.
C18_MalformedTolerated ==
  [][ (call = Idle /\ call'.op = "buildFromCourses") =>
        /\ ret' # TypeError
        /\ \A i \in 1..Len(call'.courses) : NodesHas(nodes', call'.courses[i].code)
        /\ edges' = BuildEdges_Tolerant(edges, call'.courses) ]_vars

\* C18, what the build does keep: every record becomes a node, also when
\* the second pass throws
C18_NodesBuilt ==
  [][ (call = Idle /\ call'.op = "buildFromCourses") =>
        \A i \in 1..Len(call'.courses) : NodesHas(nodes', call'.courses[i].code) ]_vars

----------------------------------------------------------------------------
(* GET /api/graph?dept=D *)

\* the ids of the nodes whose stored department is department
IdsOfDepartment(department) ==
  {nodes[i].id : i \in {j \in 1..Len(nodes) : nodes[j].department = department}}

\* the view the claim describes for the nodes with ids deptIds: these nodes,
\* the nodes at the other end of a stored edge touching one of them, each
\* once, and the stored edges with an endpoint among them
IsDepartmentView(view, deptIds) ==
  LET Touching(e) == e.from \in deptIds \/ e.to \in deptIds
      touching == SelectSeq(edges, Touching)
      others == {touching[i].from : i \in 1..Len(touching)}
                  \cup {touching[i].to : i \in 1..Len(touching)}
  IN /\ Range(view.nodes)
          = {nodes[i] : i \in {j \in 1..Len(nodes) : nodes[j].id \in deptIds \cup others}}
     /\ NoRepeats(view.nodes)
     /\ view.edges = touching

\* C19 (as claimed): for dept = D the view is built from the nodes whose
\* stored department equals D.
C19_DepartmentView_AsClaimed ==
  (call.op = "getGraph" /\ call.dept # "") =>
    IsDepartmentView(ret, IdsOfDepartment(call.dept))

\* C19 (amended): for dept = D the view is built from the nodes whose stored
\* department equals D converted to upper case: these nodes together with
\* every node that is the other endpoint of a stored edge touching one of
\* them, each node once, and exactly the stored edges with at least one
\* endpoint among them.
C19_DepartmentView ==
  (call.op = "getGraph" /\ call.dept # "") =>
    IsDepartmentView(ret, IdsOfDepartment(ToUpperCase(call.dept)))

\* a request in lower case answered with a department node, a node of
\* another department at the other end of an edge, and an edge whose other
\* endpoint has no node
C19_Witness ==
  /\ call.op = "getGraph"
  /\ call.dept = "cs"
  /\ \E i \in 1..Len(ret.nodes) : ret.nodes[i].department = "CS"
  /\ \E i \in 1..Len(ret.nodes) : ret.nodes[i].department = "MATH"
  /\ \E i \in 1..Len(ret.edges) : ~NodesHas(nodes, ret.edges[i].from)

----------------------------------------------------------------------------
(* A caller that keeps a query's return value and writes to it.            *)
(* getGraphData returns this.edges itself and a new array of the stored    *)
(* node objects; getNodesByDepartment returns a new array of the stored    *)
(* node objects. What the caller writes through a shared array or object   *)
(* is written to the store, and what the store pushes onto this.edges      *)
(* shows in the value the caller holds.                                    *)

\* the edge and the name the caller writes
CallerEdge ==
  [from |-> "A", to |-> "D", type |-> "prerequisite", label |-> "prerequisite"]

CallerName == "changed"

\* node.name = CallerName on the node object with this id
Renamed(list, id) ==
  [i \in 1..Len(list) |->
     IF list[i].id = id THEN [list[i] EXCEPT !.name = CallerName] ELSE list[i]]

\* data = getGraphData(); data.edges.push(edge) : data.edges is this.edges
CallerPushesEdge ==
  /\ call.op = "getGraphData"
  /\ Len(edges) < MaxEdges
  /\ edges' = Append(edges, CallerEdge)
  /\ ret' = [ret EXCEPT !.edges = Append(ret.edges, CallerEdge)]
  /\ UNCHANGED <<nodes, call>>
  /\ UNCHANGED serverVars

\* data = getGraphData(); data.nodes.pop() : data.nodes is a new array
CallerPopsNode ==
  /\ call.op = "getGraphData"
  /\ ret.nodes # <<>>
  /\ ret' = [ret EXCEPT !.nodes = SubSeq(ret.nodes, 1, Len(ret.nodes) - 1)]
  /\ UNCHANGED <<nodes, edges, call>>
  /\ UNCHANGED serverVars

\* list = getNodesByDepartment(d); list[0].name = CallerName : the array is
\* new, its elements are the node objects of this.nodes
CallerRenamesNode ==
  /\ call.op = "getNodesByDepartment"
  /\ ret # <<>>
  /\ ret[1].name # CallerName
  /\ ret' = Renamed(ret, ret[1].id)
  /\ nodes' = Renamed(nodes, ret[1].id)
  /\ UNCHANGED <<edges, call>>
  /\ UNCHANGED serverVars

\* buildFromCourses called while the caller still holds getGraphData's value
BuildWhileHeld ==
  /\ call.op = "getGraphData"
  /\ \E courses \in ApiRecordLists :
       /\ Len(BuildEdges(edges, courses)) <= MaxEdges
       /\ nodes' = BuildNodes(nodes, courses)
       /\ edges' = BuildEdges(edges, courses)
       /\ ret' = [ret EXCEPT !.edges = BuildEdges(ret.edges, courses)]
  /\ UNCHANGED call
  /\ UNCHANGED serverVars

NextViews ==
  \/ ApiBuild
  \/ GetGraphData
  \/ GetNodesByDepartment
  \/ GetStats
  \/ CallerPushesEdge
  \/ CallerPopsNode
  \/ CallerRenamesNode
  \/ BuildWhileHeld
  \/ Return

SpecViews == Init /\ [][NextViews]_vars

HeldOps == {"getGraphData", "getNodesByDepartment", "getStats"}

\* C20: a query's return value is freshly constructed: while a caller holds
\* it, a write of the caller to the value leaves the node map and the edge
\* sequence as they are, and a buildFromCourses leaves the value as it is.
C20_NoLiveViews ==
  [][ (call.op \in HeldOps /\ call' = call) =>
        /\ ret' # ret => (nodes' = nodes /\ edges' = edges)
        /\ (nodes' # nodes \/ edges' # edges) => ret' = ret ]_vars

\* C20, the part that holds: the node array of getGraphData is a new array,
\* so a change of its elements' order or number leaves the store as it is
C20_NodeArrayFresh ==
  [][ (call.op = "getGraphData" /\ call' = call /\ Len(ret'.nodes) # Len(ret.nodes))
        => (nodes' = nodes /\ edges' = edges) ]_vars

----------------------------------------------------------------------------
(* C21..C30 *)

QueryOps ==
  {"getGraphData", "getNodesByDepartment", "getPrerequisitesFor",
   "getDependentsFor", "getSubgraph", "getStats"}

\* C21: getGraphData, getNodesByDepartment, getPrerequisitesFor,
\* getDependentsFor, getSubgraph and getStats leave the node map and the edge
\* sequence as they were, for every store and every argument.
C21_QueriesReadOnly ==
  [][ call'.op \in QueryOps => (nodes' = nodes /\ edges' = edges) ]_vars

\* getSubgraph was called with a seed that has no node but is the endpoint
\* of a stored edge
C21_Witness ==
  /\ call.op = "getSubgraph"
  /\ \E i \in 1..Len(call.courseCodes) :
       /\ ~NodesHas(nodes, call.courseCodes[i])
       /\ \E k \in 1..Len(edges) : edges[k].from = call.courseCodes[i]

----------------------------------------------------------------------------
(* getSubgraph's while loop, one iteration at a time *)

\* an iteration that leaves out the visited.has(code) test
LoopStep_NoVisitedTest(es, queue, visited, depth) ==
  LET code == Head(queue).code
      level == Head(queue).level
  IN IF level > depth
     THEN [queue |-> Tail(queue), visited |-> visited]
     ELSE LET added == Append(visited, code)
              Touches(edge) == edge.from = code \/ edge.to = code
              connectedEdges == SelectSeq(es, Touches)
          IN [queue |-> Tail(queue) \o Pushes(connectedEdges, code, level, added),
              visited |-> added]

\* one iteration of the while loop (graphBuilder.js 83-99): visited is kept
\* as the sequence of the codes visited.add was called with
LoopStep(es, queue, visited, depth) ==
  LET code == Head(queue).code
      level == Head(queue).level
  IN IF code \in Range(visited) \/ level > depth
     THEN [queue |-> Tail(queue), visited |-> visited]
     ELSE LET added == Append(visited, code)
              Touches(edge) == edge.from = code \/ edge.to = code
              connectedEdges == SelectSeq(es, Touches)
          IN [queue |-> Tail(queue) \o Pushes(connectedEdges, code, level, added),
              visited |-> added]

\* getSubgraph is entered: visited is empty, the queue holds the seeds
SubgraphStart ==
  /\ call = Idle
  /\ \E courseCodes \in SeedLists, depth \in Depths :
       call' = [op |-> "getSubgraphLoop", courseCodes |-> courseCodes,
                depth |-> depth,
                queue |-> [i \in 1..Len(courseCodes) |->
                             [code |-> courseCodes[i], level |-> 0]],
                visited |-> <<>>]
  /\ ret' = Undefined
  /\ UNCHANGED <<nodes, edges>>
  /\ UNCHANGED serverVars

SubgraphStep ==
  /\ call.op = "getSubgraphLoop"
  /\ call.queue # <<>>
  /\ LET next == LoopStep(edges, call.queue, call.visited, call.depth)
     IN call' = [call EXCEPT !.queue = next.queue, !.visited = next.visited]
  /\ UNCHANGED <<nodes, edges, ret>>
  /\ UNCHANGED serverVars

\* the loop is left and the result is built from visited
SubgraphFinish ==
  /\ call.op = "getSubgraphLoop"
  /\ call.queue = <<>>
  /\ LET found == [i \in 1..Len(call.visited) |-> NodesGet(nodes, call.visited[i])]
         Truthy(node) == node # Undefined
         Inside(edge) == edge.from \in Range(call.visited)
                           /\ edge.to \in Range(call.visited)
     IN ret' = [nodes |-> SelectSeq(found, Truthy), edges |-> SelectSeq(edges, Inside)]
  /\ call' = [op |-> "getSubgraphDone", courseCodes |-> call.courseCodes,
              depth |-> call.depth, visited |-> call.visited]
  /\ UNCHANGED <<nodes, edges>>
  /\ UNCHANGED serverVars

\* the store is filled by one buildFromCourses call
FreshBuild ==
  /\ nodes = <<>>
  /\ edges = <<>>
  /\ Build

\* the caller takes the value of a call that has finished
ReturnWhenDone ==
  /\ call.op \in {"buildFromCourses", "getSubgraphDone"}
  /\ Return

NextSubgraphLoop ==
  \/ FreshBuild
  \/ SubgraphStart
  \/ SubgraphStep
  \/ SubgraphFinish
  \/ ReturnWhenDone

\* a call that has started keeps running: JavaScript runs it to completion
SpecSubgraphLoop ==
  /\ Init
  /\ [][NextSubgraphLoop]_vars
  /\ WF_vars(SubgraphStep)
  /\ WF_vars(SubgraphFinish)

\* C22: getSubgraph terminates for every store, seed list and depth, also
\* with cycles, mutual edges, self-loops and duplicate edges, and visits
\* each code at most once.
C22_SubgraphTerminates ==
  /\ [](call.op \in {"getSubgraphLoop", "getSubgraphDone"} => NoRepeats(call.visited))
  /\ (call.op = "getSubgraphLoop") ~> (call.op = "getSubgraphDone")

\* a finished call on a store with a pair of mutual edges (a cycle), both
\* traversed and returned
C22_Witness ==
  /\ call.op = "getSubgraphDone"
  /\ \E j, k \in 1..Len(ret.edges) :
       /\ ret.edges[j].from = ret.edges[k].to
       /\ ret.edges[j].to = ret.edges[k].from
       /\ ret.edges[j].from # ret.edges[j].to
  /\ Len(call.visited) >= 2

\* a finished call on a store whose edges are one self-loop stored twice
C22_SelfLoopTwice ==
  /\ call.op = "getSubgraphDone"
  /\ Len(edges) = 2
  /\ edges[1] = edges[2]
  /\ edges[1].from = edges[1].to
  /\ ret.edges = edges

\* the loop taken one iteration at a time ends with the visited sequence
\* the operator Traverse computes, and returns what getSubgraph returns
C22_LoopIsTraverse ==
  call.op = "getSubgraphDone" =>
    /\ call.visited = Visited(edges, call.courseCodes, call.depth)
    /\ ret = getSubgraph(nodes, edges, call.courseCodes, call.depth)

----------------------------------------------------------------------------
(* Duplicate records and duplicate edges *)

\* the first record of the list with this code
FirstRecord(courses, code) ==
  courses[CHOOSE i \in 1..Len(courses) :
            /\ courses[i].code = code
            /\ \A j \in 1..(i - 1) : courses[j].code # code]

\* the edges a build appended to the store
Appended(before, after) == SubSeq(after, Len(before) + 1, Len(after))

CorequisiteEdge(p, c) ==
  [from |-> p, to |-> c, type |-> "corequisite", label |-> "corequisite"]

\* C23: when a code appears in several records, its node has the name,
\* department and description of the first record with that code (on a
\* fresh store: the first in list order) and no later record or build
\* changes a node; the prerequisites and corequisites of every record, first
\* or later, all become edges.
C23_FirstRecordWins ==
  [][ call'.op = "buildFromCourses" =>
        LET courses == call'.courses
            added == Appended(edges, edges')
        IN /\ Len(nodes') >= Len(nodes)
           /\ \A i \in 1..Len(nodes) : nodes'[i] = nodes[i]
           /\ \A code \in CodesOf(courses) :
                ~NodesHas(nodes, code) =>
                  LET node == NodesGet(nodes', code)
                      first == FirstRecord(courses, code)
                  IN /\ node.name = first.name
                     /\ node.department = first.department
                     /\ node.description = first.description
                     /\ Cardinality({i \in 1..Len(nodes') : nodes'[i].id = code}) = 1
           /\ Len(edges') >= Len(edges)
           /\ \A i \in 1..Len(courses) :
                /\ \A p \in Range(courses[i].prerequisites) :
                     PrerequisiteEdge(p, courses[i].code) \in Range(added)
                /\ \A c \in Range(courses[i].corequisites) :
                     CorequisiteEdge(c, courses[i].code) \in Range(added) ]_vars

\* a fresh store built from two records of one code with different names:
\* the node has the first record's name, the edges are the second record's
C23_Witness ==
  /\ call.op = "buildFromCourses"
  /\ Len(call.courses) = 2
  /\ call.courses[1].code = call.courses[2].code
  /\ call.courses[1].name # call.courses[2].name
  /\ call.courses[1].prerequisites = <<>>
  /\ call.courses[2].prerequisites # <<>>
  /\ Len(nodes) = 1
  /\ nodes[1].name = call.courses[1].name
  /\ Len(edges) = Len(call.courses[2].prerequisites) + Len(call.courses[2].corequisites)

\* one edge per entry of a record's lists, prerequisites before corequisites
EdgesOfRecord(course) ==
  [i \in 1..Len(course.prerequisites) |->
     PrerequisiteEdge(course.prerequisites[i], course.code)]
  \o [i \in 1..Len(course.corequisites) |->
        CorequisiteEdge(course.corequisites[i], course.code)]

RECURSIVE EdgesOfRecords(_)
EdgesOfRecords(courses) ==
  IF courses = <<>> THEN <<>>
  ELSE EdgesOfRecord(Head(courses)) \o EdgesOfRecords(Tail(courses))

RECURSIVE RequirementCount(_)
RequirementCount(courses) ==
  IF courses = <<>> THEN 0
  ELSE Len(Head(courses).prerequisites) + Len(Head(courses).corequisites)
         + RequirementCount(Tail(courses))

\* C24: after buildFromCourses on a fresh store the edge sequence has one
\* edge per entry of every record's prerequisites and corequisites, in
\* record order with a record's prerequisites before its corequisites, and
\* getStats().totalEdges is the sum over the records of the lengths of the
\* two lists; identical edges are counted separately.
C24_EdgesNotDeduplicated ==
  [][ (nodes = <<>> /\ edges = <<>> /\ call'.op = "buildFromCourses") =>
        /\ edges' = EdgesOfRecords(call'.courses)
        /\ getStats(nodes', edges').totalEdges = RequirementCount(call'.courses) ]_vars

\* a fresh store built from a list that names one prerequisite twice: the
\* store holds the edge twice and getStats counts both
C24_Witness ==
  /\ call.op = "buildFromCourses"
  /\ edges = EdgesOfRecords(call.courses)
  /\ Len(edges) = 2
  /\ edges[1] = edges[2]
  /\ getStats(nodes, edges).prerequisiteEdges = 2

\* C25: after any sequence of buildFromCourses calls the to endpoint of
\* every edge is the code of a node (only the from endpoint can be
\* dangling); so getPrerequisitesFor of a code without a node is empty and
\* getDependentsFor never yields a missing node.
C25_ToEndpointIsNode ==
  /\ \A k \in 1..Len(edges) : NodesHas(nodes, edges[k].to)
  /\ \A code \in Codes :
       /\ ~NodesHas(nodes, code) => getPrerequisitesFor(nodes, edges, code) = <<>>
       /\ LET dependents == getDependentsFor(nodes, edges, code)
          IN \A i \in 1..Len(dependents) : dependents[i] # Undefined

\* getDependentsFor was called with a code that has no node and is the from
\* endpoint of a stored edge: it returned the node at the to endpoint
C25_Witness ==
  /\ call.op = "getDependentsFor"
  /\ ~NodesHas(nodes, call.courseCode)
  /\ Len(ret) >= 1
  /\ \A i \in 1..Len(ret) : ret[i] \in Range(nodes)
  /\ getPrerequisitesFor(nodes, edges, call.courseCode) = <<>>

----------------------------------------------------------------------------
(* getSubgraph and codes without a node *)

RetNodeIds == {ret.nodes[i].id : i \in 1..Len(ret.nodes)}

\* C26 (as claimed): both endpoints of every edge getSubgraph returns are
\* ids of nodes in the returned node sequence.
C26_ClosedSubgraph_AsClaimed ==
  call.op = "getSubgraph" =>
    \A k \in 1..Len(ret.edges) :
      ret.edges[k].from \in RetNodeIds /\ ret.edges[k].to \in RetNodeIds

\* C26 (amended): both endpoints of every edge getSubgraph returns are
\* visited codes (within depth hops of a seed), and an endpoint is the id of
\* a returned node whenever the store has a node for it; an edge one of
\* whose endpoints has no node is returned with that endpoint missing from
\* the returned nodes.
C26_ClosedSubgraph ==
  call.op = "getSubgraph" =>
    LET visited == Reached(edges, call.courseCodes, call.depth)
    IN \A k \in 1..Len(ret.edges) :
         \A endpoint \in {ret.edges[k].from, ret.edges[k].to} :
           /\ endpoint \in visited
           /\ NodesHas(nodes, endpoint) <=> endpoint \in RetNodeIds

\* getSubgraph returned a node together with an edge whose from endpoint
\* has no node
C26_Witness ==
  /\ call.op = "getSubgraph"
  /\ ret.nodes # <<>>
  /\ \E k \in 1..Len(ret.edges) :
       ~NodesHas(nodes, ret.edges[k].from) /\ ret.edges[k].to \in RetNodeIds

\* the seeds of the call that have a node, in the call's order
PresentSeeds ==
  LET IsNode(code) == NodesHas(nodes, code)
  IN SelectSeq(call.courseCodes, IsNode)

DroppedSeeds == Range(call.courseCodes) \ Range(PresentSeeds)

\* C27 (as claimed): getSubgraph(S, depth) returns the same nodes as
\* getSubgraph(S restricted to the codes that have a node, depth).
C27_AbsentSeedsContributeNothing ==
  call.op = "getSubgraph" =>
    Range(ret.nodes)
      = Range(getSubgraph(nodes, edges, PresentSeeds, call.depth).nodes)

\* C27 (amended): a seed without a node is not among the returned nodes,
\* but it is traversed like any code: the returned nodes are the nodes
\* among the codes within depth hops of any seed, hops counted over the
\* stored edges and through codes without a node; they include the nodes
\* returned for the seeds restricted to node codes, and equal them when
\* depth is at most 0 or no dropped seed is an endpoint of a stored edge.
C27_AbsentSeedsTraversed ==
  call.op = "getSubgraph" =>
    LET restricted == getSubgraph(nodes, edges, PresentSeeds, call.depth)
        Isolated == \A k \in 1..Len(edges) :
                      edges[k].from \notin DroppedSeeds /\ edges[k].to \notin DroppedSeeds
    IN /\ RetNodeIds \cap DroppedSeeds = {}
       /\ RetNodeIds = NodeIds \cap Reached(edges, call.courseCodes, call.depth)
       /\ Range(restricted.nodes) \subseteq Range(ret.nodes)
       /\ (call.depth <= 0 \/ Isolated) => ret.nodes = restricted.nodes

\* getSubgraph called with one seed that has no node returned a node
C27_Witness ==
  /\ call.op = "getSubgraph"
  /\ Len(call.courseCodes) = 1
  /\ PresentSeeds = <<>>
  /\ ret.nodes # <<>>

----------------------------------------------------------------------------
(* suggest-courses: codes reported, and growth of the completed set *)

\* the codes of all entries of a response, tier after tier
ReportedCodes(result) ==
  LET all == result.canTake \o result.partialPrereqs \o result.noPrereqs
  IN [i \in 1..Len(all) |-> all[i].code]

\* C28: no course code appears in two of canTake, partialPrereqs and
\* noPrereqs, nor twice within one of them, also when a code appears in
\* more than one loaded record.
C28_CodesReportedOnce ==
  call.op \in SuggestOps => NoRepeats(ReportedCodes(ret))

\* C28 for loaded records with pairwise different codes
C28_DistinctRecordsReportedOnce ==
  (call.op \in SuggestOps
     /\ \A i, j \in 1..Len(coursesData) :
          i # j => coursesData[i].code # coursesData[j].code)
    => NoRepeats(ReportedCodes(ret))

UpperCased(completedCourses) == {ToUpperCase(c) : c \in Range(completedCourses)}

\* what the handler of the call answers to another completedCourses, with
\* no orGroups
ResponseFor(completedCourses) ==
  IF call.op = "suggestCourses"
  THEN suggestCourses(coursesData, completedCourses, NoOrGroups)
  ELSE suggestCoursesCompletedOnly(coursesData, completedCourses)

TierCodes(tier) == {tier[i].code : i \in 1..Len(tier)}

SameCourse(e1, e2) ==
  e1.code = e2.code /\ e1.name = e2.name /\ e1.department = e2.department

AllEntries(result) == Range(result.canTake \o result.partialPrereqs \o result.noPrereqs)

\* the response to more is the response to a completed set that contains
\* the one of less
Monotone(less, more, completedMore) ==
  /\ \A c \in TierCodes(less.canTake) :
       c \in TierCodes(more.canTake) \/ c \in completedMore
  /\ \A c \in TierCodes(less.partialPrereqs) :
       c \in TierCodes(more.canTake) \cup TierCodes(more.partialPrereqs)
         \/ c \in completedMore
  /\ \A e1 \in AllEntries(less), e2 \in AllEntries(more) :
       SameCourse(e1, e2) =>
         /\ Range(e2.missingPrereqs) \subseteq Range(e1.missingPrereqs)
         /\ Len(e2.missingPrereqs) <= Len(e1.missingPrereqs)
         /\ Range(e2.missingCoreqs) \subseteq Range(e1.missingCoreqs)
         /\ Len(e2.missingCoreqs) <= Len(e1.missingCoreqs)

\* C29: without orGroups, if completed is contained in completed', every
\* course in canTake for completed is in canTake for completed' or is in
\* completed', every course in partialPrereqs for completed is in canTake
\* or partialPrereqs for completed' or is in completed', and no course's
\* missing lists grow.
C29_MonotoneInCompleted ==
  (call.op \in SuggestOps /\ ~OrMode) =>
    \A more \in CompletedLists :
      UpperCased(call.completedCourses) \subseteq UpperCased(more) =>
        Monotone(ret, ResponseFor(more), UpperCased(more))

\* a response with a partialPrereqs entry that a larger completed set moves
\* to canTake, its missing list becoming empty
C29_Witness ==
  /\ call.op \in SuggestOps
  /\ ~OrMode
  /\ \E more \in CompletedLists :
       /\ UpperCased(call.completedCourses) \subseteq UpperCased(more)
       /\ UpperCased(call.completedCourses) # UpperCased(more)
       /\ \E i \in 1..Len(ret.partialPrereqs) :
            /\ ret.partialPrereqs[i].code \in TierCodes(ResponseFor(more).canTake)
            /\ ret.partialPrereqs[i].code \notin UpperCased(more)

----------------------------------------------------------------------------
(* Startup *)

\* C30: once the server listens, either coursesData is empty and the graph
\* is empty, or the graph's nodes and edges are the full build of
\* coursesData (a field a record lacks counting as empty); no failure
\* during loading leaves coursesData populated with a graph that holds only
\* part of its nodes or edges.
C30_LoadAllOrNothing ==
  listening =>
    \/ coursesData = <<>> /\ nodes = <<>> /\ edges = <<>>
    \/ /\ coursesData # <<>>
       /\ nodes = BuildNodes(<<>>, coursesData)
       /\ edges = BuildEdges_Tolerant(<<>>, coursesData)

\* C30, the ordering: app.listen runs only after loadCourseData has ended,
\* with or without a failure, and the load never runs again
C30_ListenAfterLoad ==
  [][ /\ (~listening /\ listening') => call.op \in {"buildFromCourses", "loadCourseData"}
      /\ listening => (coursesData' = coursesData /\ nodes' = nodes /\ edges' = edges)
    ]_vars

\* C30 for files whose records all have both fields
C30_WellFormedLoadIsWhole ==
  (listening /\ ~BuildThrows(coursesData)) =>
    /\ nodes = BuildNodes(<<>>, coursesData)
    /\ edges = BuildEdges(<<>>, coursesData)

====
